---- MODULE Spec2Model ----
(***************************************************************************)
(* Animation subsystem of the site: the pooled ParticleSystem of the       *)
(* animation primitives and the AnimationController singleton.             *)
(*                                                                         *)
(* Units.  Time is in milliseconds.  A position is kept in thousandths of  *)
(* a pixel and a velocity in pixels per second, so that                    *)
(* "x += vx * deltaTime" (deltaTime in seconds) is x' = x + vx * dt with   *)
(* dt in milliseconds.  An opacity is kept in thousandths and, with the    *)
(* configured lifetime L, "opacity -= deltaTime / L" is                    *)
(* opacity' = opacity - dt \div L.  A scale is kept in hundredths.         *)
(***************************************************************************)
EXTENDS Integers, Sequences, FiniteSets, TLC

VARIABLES
    \* ---- ParticleSystem (one instance) ----
    particles,        \* this.particles: the active list
    particlePool,     \* this.particlePool: the free pool
    rec,              \* the Particle records, by identity
    element,          \* the DOM element bound to each record
    isRunning,        \* this.isRunning
    animationFrame,   \* this.animationFrame (0: none)
    lastTime,         \* this.lastTime (0: unset)
    pending,          \* handles of this system's scheduled frame callbacks
    now,              \* timestamp of the browser's latest frame
    \* ---- what the latest call did (observations, not program state) ----
    lastOp,           \* the latest operation
    twice,            \* the latest operation repeats the one before it
    wrote,            \* records whose element style the latest call wrote
    threw,            \* the latest call raised an exception
    changed,          \* the latest call changed a field, an element or the schedule
    taken,            \* record taken from the pool by the latest spawn (0: none)
    lastArgs,         \* arguments and random draws of the latest spawn
    lastDelta,        \* deltaTime (ms) of the latest frame update (-1: none ran)
    cleaned,          \* cleanup() has returned at least once
    everActive,       \* records that have been active at some time
    recycled,         \* the latest spawn took a record that had lived before
    burst             \* spawn calls since construction with nothing else called (-1: over)

psVars == <<particles, particlePool, rec, element, isRunning, animationFrame,
            lastTime, pending, now, lastOp, twice, wrote, threw, changed, taken,
            lastArgs, lastDelta, cleaned, everActive, recycled, burst>>

VARIABLES
    \* ---- AnimationController (the singleton) ----
    animations,             \* this.animations: section id -> animation (0: no entry)
    isActive,               \* state.isActive
    reducedMotionEnabled,   \* state.reducedMotionEnabled
    visibleSections,        \* state.visibleSections
    currentSection,         \* state.currentSection
    frameRate,              \* state.performanceMetrics.frameRate (whole part)
    memoryUsage,            \* state.performanceMetrics.memoryUsage (MB)
    animationCount,         \* state.performanceMetrics.animationCount
    sinceSample,            \* performance.now() - performanceMetrics.lastFrameTime (ms)
    intersectionObserver,   \* this.intersectionObserver (0: null)
    performanceMonitorId,   \* this.performanceMonitorId (0: null)
    \* ---- the host: browser objects the controller created, and its inputs ----
    observers,              \* the connected IntersectionObservers
    monitors,               \* handles of the scheduled monitor callbacks
    listeners,              \* 'change' listeners added to the media query
    mediaMatches,           \* (prefers-reduced-motion: reduce) matches now
    hasIntersectionObserver,\* 'IntersectionObserver' in window
    running,                \* animations whose latest call was start()
    created,                \* animations constructed so far (1..created)
    fallback,               \* sections whose element carries a fallback class
    \* ---- what the latest call did (observations) ----
    acOp,                   \* the latest controller operation
    intersected,            \* sections it met with an intersecting entry and an animation
    calls,                  \* start / pause / cleanup calls it made, per animation
    warnings,               \* console.warn calls it made
    acThrew,                \* it ended by an exception
    errorSection            \* the section handleAnimationError was called for

acVars == <<animations, isActive, reducedMotionEnabled, visibleSections,
            currentSection, frameRate, memoryUsage, animationCount, sinceSample,
            intersectionObserver, performanceMonitorId, observers, monitors,
            listeners, mediaMatches, hasIntersectionObserver, running, created,
            fallback, acOp, intersected, calls, warnings, acThrew,
            errorSection>>

VARIABLES
    \* ---- a caller of getState() ----
    snapshot,               \* the object the latest getState() returned
    snapshotAtCall          \* what that object showed when it was returned

snapVars == <<snapshot, snapshotAtCall>>

VARIABLES
    \* ---- an AnimatedBackground component ----
    sectionType,            \* its sectionType prop
    mounted,                \* its effect has run and its cleanup has not
    unmounted,              \* an effect cleanup has run
    particleSystemRef,      \* particleSystemRef.current (0: null, else the n-th system)
    systemCleaned,          \* cleanup() was called on the system the ref holds
    animationFrameRef,      \* animationFrameRef.current
    bgFrames,               \* handles of its scheduled frame callbacks
    bgTimers,               \* its pending timeouts, per callback
    \* ---- what the latest callback of the component did (observations) ----
    bgOp,                   \* the latest effect or callback
    rescheduled,            \* it scheduled a timeout or a frame callback
    spawnCalls              \* spawnParticle calls it made

bgVars == <<sectionType, mounted, unmounted, particleSystemRef, systemCleaned,
            animationFrameRef, bgFrames, bgTimers, bgOp, rescheduled, spawnCalls>>

VARIABLES
    \* ---- a FlowAnimation ----
    flowIsRunning,          \* this.isRunning
    flowPaths,              \* this.paths.length
    flowParticles,          \* this.particles (the particles, by order of creation)
    flowFrames,             \* particles whose animate callback is scheduled
    flowCreated,            \* particles created so far
    flowStopped,            \* stop() or cleanup() was called, and start() not since
    \* ---- what the latest call did (observations) ----
    flowOp,                 \* the latest call or callback
    flowMutated             \* the particle whose style it wrote (0: none)

flowVars == <<flowIsRunning, flowPaths, flowParticles, flowFrames, flowCreated,
              flowStopped, flowOp, flowMutated>>

VARIABLES
    \* ---- a ConnectionNetwork ----
    cnNodes,                \* this.nodes.length
    cnConnections,          \* this.connections.length
    pulseAnimations,        \* this.pulseAnimations (the handles it holds)
    cnFrames,               \* handles of the scheduled animate callbacks
    cnHandles,              \* handles requestAnimationFrame has handed out
    cnCleanedAt,            \* the first handle not handed out before the latest cleanup()
    \* ---- what the latest call did (observations) ----
    cnOp,                   \* the latest call or callback
    cnRan                   \* the handle of the callback that ran (0: none)

netVars == <<cnNodes, cnConnections, pulseAnimations, cnFrames, cnHandles,
             cnCleanedAt, cnOp, cnRan>>

VARIABLES
    \* ---- a ChallengeBleedAnimation component ----
    bleedContainer,         \* containerRef.current is an element
    particlesRef,           \* particlesRef.current.length
    spawnTimerRef,          \* spawnTimerRef.current
    bleedFrame,             \* the animate callback is scheduled
    bleedTimers,            \* pending timeouts of spawnParticles
    bleedOp                 \* the latest effect or callback

bleedVars == <<bleedContainer, particlesRef, spawnTimerRef, bleedFrame,
               bleedTimers, bleedOp>>

\* the rest of the page, beside the ParticleSystem and the controller
pageVars == <<snapVars, bgVars, flowVars, netVars, bleedVars>>

vars == <<psVars, acVars, pageVars>>

----------------------------------------------------------------------------
(* Bounds and constants *)

\* config.count of the modelled system: the pool capacity
Count == 2

\* frames are delivered while the browser clock is at most MaxTime
MaxTime == 120

\* the padding of the bounding box
Pad == 50

\* the cap on deltaTime, 0.016 s
MaxDelta == 16

\* container.offsetWidth / offsetHeight, in pixels
Container == [offsetWidth |-> 100, offsetHeight |-> 60]

\* the ParticleSystemConfig of the modelled system (opacity in thousandths)
Config == [count |-> Count, opacity |-> [min |-> 16, max |-> 48], lifetime |-> 1]

\* milliseconds between two frames of the browser
Elapsed == {40}

\* the two draws of Math.random() of one spawnParticle call, in halves
\* (0 is 0.0, 1 is 0.5): <<draw for opacity, draw for scale>>
RandomDraws == {<<0, 1>>, <<1, 0>>}

\* spawn arguments <<x, y, vx, vy>> (pixels, pixels per second)
SpawnArgs ==
    { <<0, 0, 125, 0>>,
      <<Container.offsetWidth + Pad, -Pad, 1000, -1000>> }

NoParticle == 0

\* animations a behaviour constructs at most
MaxInstances == 2

\* entries one IntersectionObserver callback delivers at most
MaxEntries == 2

\* init() calls of a behaviour (one per AnimatedBackground mount)
MaxInits == 2

\* the longest time (ms) a behaviour leaves the metrics unsampled
MaxGap == 100

\* this.frameRateThreshold
frameRateThreshold == 30

\* this.memoryThreshold, MB
memoryThreshold == 50

\* the frame rate below which handlePerformanceDegradation disables animations
severeFrameRate == 15

\* the frame rate of the constructor's performanceMetrics
InitialFrameRate == 60

\* the sections of the page
SectionIds == {"hero", "framework"}

\* the section whose AnimatedBackground owns the ParticleSystem
ParticleSection == "hero"

\* milliseconds between two frames of the browser, seen by the monitor
FrameGaps == {25, 100}

\* the reading of a browser without performance.memory
NoMemory == -1

\* performance.memory.usedJSHeapSize in MB, or NoMemory
MemorySamples == {NoMemory, 60}

NoAnimation == 0

AnimationIds == 1..MaxInstances

Methods == {"start", "pause", "cleanup"}

\* 1000 / 0
Infinity == 1000 * 1000

\* positions one round of the hero spawn loop generates
HeroPositions == 3

\* delayed spawns of the hero loop pending at a time, at most
MaxSpawnTimers == 3

\* paths and particles of a FlowAnimation, at most
MaxPaths == 2
MaxFlowParticles == 3

\* nodes and connections of a ConnectionNetwork, and the handles
\* requestAnimationFrame hands to it, at most
MaxNodes == 2
MaxConnections == 2
MaxHandles == 4

\* ChallengeBleedAnimation: PARTICLE_COUNT, SPAWN_RATE (ms), the spawnCount
\* range 2 + floor(random * 3), and the deltaTime animate takes for a jump
PARTICLE_COUNT == 80
SPAWN_RATE == 300
MinSpawnCount == 2
MaxSpawnCount == 4
LargeJump == 100

\* the time between two frames of the bleed animation (ms), and the
\* particles one updateParticles removes, at most
FrameDelta == 50
MaxExpired == 2

Min(a, b) == IF a < b THEN a ELSE b

Range(s) == { s[i] : i \in 1..Len(s) }

\* Array.prototype.indexOf, 1-based; 0 when absent
IndexOf(s, p) ==
    IF \E i \in 1..Len(s) : s[i] = p
    THEN CHOOSE i \in 1..Len(s) : s[i] = p /\ \A j \in 1..(i - 1) : s[j] # p
    ELSE 0

\* Array.prototype.splice(index, 1)
Splice(s, i) == SubSeq(s, 1, i - 1) \o SubSeq(s, i + 1, Len(s))

----------------------------------------------------------------------------
(* The ParticleSystem object as a value: operations map a value to a value *)

PS == [particles |-> particles, particlePool |-> particlePool, rec |-> rec,
       element |-> element, isRunning |-> isRunning,
       animationFrame |-> animationFrame, lastTime |-> lastTime,
       pending |-> pending, wrote |-> {}, threw |-> FALSE]

\* the fields of the object and its scheduled callbacks, without the observations
Core(s) == [particles |-> s.particles, particlePool |-> s.particlePool,
            rec |-> s.rec, element |-> s.element, isRunning |-> s.isRunning,
            animationFrame |-> s.animationFrame, lastTime |-> s.lastTime,
            pending |-> s.pending]

\* a particle as createPool makes it
NewParticle == [x |-> 0, y |-> 0, vx |-> 0, vy |-> 0, opacity |-> 0,
                scale |-> 100, active |-> FALSE]

\* an element as createParticleElement makes it: appended to the container,
\* transform translate3d(0, 0, 0) without scale (scale 0 here), opacity unset (-1)
NewElement == [attached |-> TRUE, transform |-> <<0, 0, 0>>, opacity |-> -1]

\* createPool: count records pushed in order
createPool(n) == [i \in 1..n |-> i]

\* requestAnimationFrame: a handle that no scheduled callback carries (every
\* caller overwrites the handle it had stored with the new one)
requestAnimationFrame(s) ==
    CHOOSE h \in 1..(Cardinality(s.pending) + 1) : h \notin s.pending

\* getParticle with the pool's last record read but not removed
getParticle_NoPop(s) ==
    IF Len(s.particlePool) > 0
    THEN LET p == s.particlePool[Len(s.particlePool)]
         IN [st |-> [s EXCEPT !.rec[p].active = TRUE,
                              !.particles = Append(@, p)],
             particle |-> p]
    ELSE [st |-> s, particle |-> NoParticle]

\* getParticle that creates a record when the pool is empty
getParticle_Allocating(s) ==
    IF Len(s.particlePool) > 0
    THEN LET p == s.particlePool[Len(s.particlePool)]
         IN [st |-> [s EXCEPT !.particlePool = SubSeq(@, 1, Len(@) - 1),
                              !.rec[p].active = TRUE,
                              !.particles = Append(@, p)],
             particle |-> p]
    ELSE LET p == Cardinality(DOMAIN s.rec) + 1
         IN [st |-> [s EXCEPT !.rec = @ @@ (p :> [NewParticle EXCEPT !.active = TRUE]),
                              !.element = @ @@ (p :> NewElement),
                              !.particles = Append(@, p)],
             particle |-> p]

getParticle(s) ==
    IF Len(s.particlePool) > 0
    THEN LET p == s.particlePool[Len(s.particlePool)]
         IN [st |-> [s EXCEPT !.particlePool = SubSeq(@, 1, Len(@) - 1),
                              !.rec[p].active = TRUE,
                              !.particles = Append(@, p)],
             particle |-> p]
    ELSE [st |-> s, particle |-> NoParticle]

\* returnParticle that takes the record off the active list and drops it
returnParticle_Dropping(s, p) ==
    LET s1 == [s EXCEPT !.rec[p].active = FALSE,
                        !.element[p].opacity = 0,
                        !.wrote = @ \cup {p}]
        index == IndexOf(s1.particles, p)
    IN IF index > 0
       THEN [s1 EXCEPT !.particles = Splice(@, index)]
       ELSE s1

returnParticle(s, p) ==
    LET s1 == [s EXCEPT !.rec[p].active = FALSE,
                        !.element[p].opacity = 0,
                        !.wrote = @ \cup {p}]
        index == IndexOf(s1.particles, p)
    IN IF index > 0
       THEN [s1 EXCEPT !.particles = Splice(@, index),
                       !.particlePool = Append(@, p)]
       ELSE s1

updateParticleElement(s, p) ==
    [s EXCEPT !.element[p].transform = <<s.rec[p].x, s.rec[p].y, s.rec[p].scale>>,
              !.element[p].opacity = s.rec[p].opacity,
              !.wrote = @ \cup {p}]

\* opacity.min + Math.random() * (opacity.max - opacity.min), the draw in halves
DrawOpacity(r) == Config.opacity.min + (r * (Config.opacity.max - Config.opacity.min)) \div 2

\* 0.5 + Math.random() * 0.5, in hundredths, the draw in halves
DrawScale(r) == 50 + (r * 50) \div 2

\* spawnParticle that leaves a velocity component alone when its argument is 0
spawnParticle_KeepVelocity(s, x, y, vx, vy, r1, r2) ==
    LET g == getParticle(s)
        p == g.particle
    IN IF p = NoParticle
       THEN g.st
       ELSE updateParticleElement(
                [g.st EXCEPT !.rec[p].x = x * 1000,
                             !.rec[p].y = y * 1000,
                             !.rec[p].vx = IF vx # 0 THEN vx ELSE @,
                             !.rec[p].vy = IF vy # 0 THEN vy ELSE @,
                             !.rec[p].opacity = DrawOpacity(r1),
                             !.rec[p].scale = DrawScale(r2)], p)

spawnParticle(s, x, y, vx, vy, r1, r2) ==
    LET g == getParticle(s)
        p == g.particle
    IN IF p = NoParticle
       THEN g.st
       ELSE updateParticleElement(
                [g.st EXCEPT !.rec[p].x = x * 1000,
                             !.rec[p].y = y * 1000,
                             !.rec[p].vx = vx,
                             !.rec[p].vy = vy,
                             !.rec[p].opacity = DrawOpacity(r1),
                             !.rec[p].scale = DrawScale(r2)], p)

\* the removal condition of updateParticles, on a record's values
Expired(q) ==
    \/ q.opacity <= 0
    \/ q.x < -Pad * 1000
    \/ q.x > (Container.offsetWidth + Pad) * 1000
    \/ q.y < -Pad * 1000
    \/ q.y > (Container.offsetHeight + Pad) * 1000

\* one record moved and faded by dt milliseconds
Advance(q, dt) ==
    [q EXCEPT !.x = @ + q.vx * dt,
              !.y = @ + q.vy * dt,
              !.opacity = @ - dt \div Config.lifetime]

\* the body of the loop of updateParticles for index i (1-based)
updateOne(s, i, dt) ==
    LET p == s.particles[i]
        s1 == [s EXCEPT !.rec[p] = Advance(@, dt)]
    IN IF Expired(s1.rec[p])
       THEN returnParticle(s1, p)
       ELSE updateParticleElement(s1, p)

RECURSIVE updateDown(_, _, _)
updateDown(s, i, dt) ==
    IF i < 1 THEN s ELSE updateDown(updateOne(s, i, dt), i - 1, dt)

RECURSIVE updateUp(_, _, _)
updateUp(s, i, dt) ==
    IF i > Len(s.particles) THEN s ELSE updateUp(updateOne(s, i, dt), i + 1, dt)

\* updateParticles iterating from the first index upwards
updateParticles_Forward(s, dt) == updateUp(s, 1, dt)

\* for (let i = this.particles.length - 1; i >= 0; i--)
updateParticles(s, dt) == updateDown(s, Len(s.particles), dt)

\* deltaTime of a frame at currentTime, in milliseconds
DeltaTime(s, currentTime) ==
    Min(currentTime - (IF s.lastTime # 0 THEN s.lastTime ELSE currentTime), MaxDelta)

animate(s, currentTime) ==
    IF ~s.isRunning
    THEN s
    ELSE LET s1 == updateParticles([s EXCEPT !.lastTime = currentTime],
                                   DeltaTime(s, currentTime))
             h == requestAnimationFrame(s1)
         IN [s1 EXCEPT !.animationFrame = h, !.pending = @ \cup {h}]

\* animate when updateParticles throws: the exception leaves the callback
\* before requestAnimationFrame; progressed tells whether the particles had
\* been moved when it was thrown
animateThrows(s, currentTime, progressed) ==
    LET s0 == [s EXCEPT !.lastTime = currentTime]
        s1 == IF progressed THEN updateParticles(s0, DeltaTime(s, currentTime))
              ELSE s0
    IN [s1 EXCEPT !.threw = TRUE]

\* start without the isRunning guard
start_NoGuard(s) ==
    LET h == requestAnimationFrame(s)
    IN [s EXCEPT !.isRunning = TRUE, !.animationFrame = h, !.pending = @ \cup {h}]

start(s) ==
    IF s.isRunning
    THEN s
    ELSE LET h == requestAnimationFrame(s)
         IN [s EXCEPT !.isRunning = TRUE, !.animationFrame = h,
                      !.pending = @ \cup {h}]

\* stop that clears the flag and the handle but cancels nothing
stop_NoCancel(s) == [s EXCEPT !.isRunning = FALSE, !.animationFrame = 0]

stop(s) ==
    IF s.animationFrame # 0
    THEN [s EXCEPT !.isRunning = FALSE,
                   !.pending = @ \ {s.animationFrame},
                   !.animationFrame = 0]
    ELSE [s EXCEPT !.isRunning = FALSE]

RECURSIVE returnAll(_)
returnAll(s) ==
    IF Len(s.particles) > 0 THEN returnAll(returnParticle(s, s.particles[1])) ELSE s

reset(s) == returnAll(stop(s))

\* Node.removeChild on the element's parent: raises when there is no parent
removeChild(s, p) ==
    IF s.element[p].attached
    THEN [s EXCEPT !.element[p].attached = FALSE]
    ELSE [s EXCEPT !.threw = TRUE]

\* if (particle.element.parentNode) particle.element.parentNode.removeChild(...)
removeElement(s, p) ==
    IF s.element[p].attached THEN removeChild(s, p) ELSE s

RECURSIVE removeElements(_, _)
removeElements(s, list) ==
    IF list = <<>> THEN s
    ELSE removeElements(removeElement(s, Head(list)), Tail(list))

\* cleanup that removes the elements but keeps both collections
cleanup_NoClear(s) ==
    LET s1 == reset(s)
    IN removeElements(s1, s1.particlePool \o s1.particles)

cleanup(s) ==
    LET s1 == reset(s)
        s2 == removeElements(s1, s1.particlePool \o s1.particles)
    IN [s2 EXCEPT !.particles = <<>>, !.particlePool = <<>>]

----------------------------------------------------------------------------
(* Actions of the ParticleSystem *)

\* the object's fields and the per-call observations after a call
Commit(s, op) ==
    /\ particles' = s.particles
    /\ particlePool' = s.particlePool
    /\ rec' = s.rec
    /\ element' = s.element
    /\ isRunning' = s.isRunning
    /\ animationFrame' = s.animationFrame
    /\ lastTime' = s.lastTime
    /\ pending' = s.pending
    /\ wrote' = s.wrote
    /\ threw' = s.threw
    /\ changed' = (Core(s) # Core(PS))
    /\ lastOp' = op
    /\ twice' = (lastOp = op)
    /\ UNCHANGED <<acVars, pageVars>>
    /\ everActive' = everActive \cup Range(s.particles)

InitPS ==
    /\ particles = <<>>
    /\ particlePool = createPool(Config.count)
    /\ rec = [p \in 1..Config.count |-> NewParticle]
    /\ element = [p \in 1..Config.count |-> NewElement]
    /\ isRunning = FALSE
    /\ animationFrame = 0
    /\ lastTime = 0
    /\ pending = {}
    /\ now = 0
    /\ lastOp = "new"
    /\ twice = FALSE
    /\ wrote = {}
    /\ threw = FALSE
    /\ changed = FALSE
    /\ taken = NoParticle
    /\ lastArgs = <<>>
    /\ lastDelta = -1
    /\ cleaned = FALSE
    /\ everActive = {}
    /\ recycled = FALSE
    /\ burst = 0

\* the observations of a call that is not a spawn or not a frame
NoSpawnObs == taken' = NoParticle /\ lastArgs' = <<>> /\ recycled' = FALSE

NoFrameObs == lastDelta' = -1

SpawnParticle ==
    \E a \in SpawnArgs, r \in RandomDraws :
        LET s == spawnParticle(PS, a[1], a[2], a[3], a[4], r[1], r[2])
            p == IF Len(s.particles) > Len(particles)
                 THEN s.particles[Len(s.particles)] ELSE NoParticle
        IN /\ Commit(s, "spawn")
           /\ taken' = p
           /\ lastArgs' = <<a[1], a[2], a[3], a[4], r[1], r[2]>>
           /\ recycled' = (p \in everActive)
           /\ burst' = IF burst >= 0 /\ burst < Config.count + 2 THEN burst + 1 ELSE -1
           /\ NoFrameObs
           /\ UNCHANGED <<now, cleaned>>

Frame ==
    \E h \in pending, e \in Elapsed :
        /\ now + e <= MaxTime
        /\ now' = now + e
        /\ LET s0 == [PS EXCEPT !.pending = @ \ {h}]
           IN /\ Commit(animate(s0, now + e), "frame")
              /\ lastDelta' = IF s0.isRunning THEN DeltaTime(s0, now + e) ELSE -1
        /\ burst' = -1
        /\ NoSpawnObs
        /\ UNCHANGED cleaned

\* a frame callback of a running system in which updateParticles throws
FrameError ==
    \E h \in pending, e \in Elapsed, progressed \in BOOLEAN :
        /\ isRunning
        /\ now + e <= MaxTime
        /\ now' = now + e
        /\ LET s0 == [PS EXCEPT !.pending = @ \ {h}]
           IN /\ Commit(animateThrows(s0, now + e, progressed), "frameError")
              /\ lastDelta' = DeltaTime(s0, now + e)
        /\ burst' = -1
        /\ NoSpawnObs
        /\ UNCHANGED cleaned

Start ==
    /\ Commit(start(PS), "start")
    /\ burst' = -1
    /\ NoSpawnObs /\ NoFrameObs
    /\ UNCHANGED <<now, cleaned>>

Stop ==
    /\ Commit(stop(PS), "stop")
    /\ burst' = -1
    /\ NoSpawnObs /\ NoFrameObs
    /\ UNCHANGED <<now, cleaned>>

Reset ==
    /\ Commit(reset(PS), "reset")
    /\ burst' = -1
    /\ NoSpawnObs /\ NoFrameObs
    /\ UNCHANGED <<now, cleaned>>

Cleanup ==
    /\ Commit(cleanup(PS), "cleanup")
    /\ cleaned' = TRUE
    /\ burst' = -1
    /\ NoSpawnObs /\ NoFrameObs
    /\ UNCHANGED now

NextPS == SpawnParticle \/ Frame \/ Start \/ Stop \/ Reset \/ Cleanup

----------------------------------------------------------------------------
(* The AnimationController object as a value *)

AC == [animations |-> animations, isActive |-> isActive,
       reducedMotionEnabled |-> reducedMotionEnabled,
       visibleSections |-> visibleSections, currentSection |-> currentSection,
       frameRate |-> frameRate, memoryUsage |-> memoryUsage,
       animationCount |-> animationCount, sinceSample |-> sinceSample,
       intersectionObserver |-> intersectionObserver,
       performanceMonitorId |-> performanceMonitorId,
       observers |-> observers, monitors |-> monitors, listeners |-> listeners,
       running |-> running,
       fallback |-> fallback,
       calls |-> [c \in Methods \X AnimationIds |-> 0], warnings |-> 0,
       intersected |-> {}, threw |-> FALSE, errorSection |-> ""]

\* a SectionAnimation method invoked on animation a: it runs after start()
\* and does not after pause() or cleanup()
Call(s, m, a) ==
    [s EXCEPT !.calls[<<m, a>>] = @ + 1,
              !.running = IF m = "start" THEN @ \cup {a} ELSE @ \ {a}]

RECURSIVE CallAll(_, _, _)
CallAll(s, m, as) ==
    IF as = {} THEN s
    ELSE LET a == CHOOSE x \in as : \A y \in as : x <= y
         IN CallAll(Call(s, m, a), m, as \ {a})

\* the keys and the values of this.animations
Registered(s) == { id \in SectionIds : s.animations[id] # NoAnimation }

RegisteredAnimations(s) == { s.animations[id] : id \in Registered(s) }

\* console.warn
Warn(s) == [s EXCEPT !.warnings = @ + 1]

registerSection(s, sectionId, animation) ==
    LET s1 == [s EXCEPT !.animations[sectionId] = animation]
    IN [s1 EXCEPT !.animationCount = Cardinality(Registered(s1))]

\* unregisterSection that leaves the section in visibleSections
unregisterSection_KeepVisible(s, sectionId) ==
    LET animation == s.animations[sectionId]
    IN IF animation # NoAnimation
       THEN LET s1 == Call(s, "cleanup", animation)
                s2 == [s1 EXCEPT !.animations[sectionId] = NoAnimation]
            IN [s2 EXCEPT !.animationCount = Cardinality(Registered(s2))]
       ELSE s

unregisterSection(s, sectionId) ==
    LET animation == s.animations[sectionId]
    IN IF animation # NoAnimation
       THEN LET s1 == Call(s, "cleanup", animation)
                s2 == [s1 EXCEPT !.animations[sectionId] = NoAnimation,
                                 !.visibleSections = @ \ {sectionId}]
            IN [s2 EXCEPT !.animationCount = Cardinality(Registered(s2))]
       ELSE s

\* unregisterSection on an animation whose cleanup() throws: the exception
\* leaves the method at the call; halted tells whether the animation had
\* stopped its own work before it threw
unregisterSectionThrows(s, sectionId, halted) ==
    LET animation == s.animations[sectionId]
        s1 == Call(s, "cleanup", animation)
    IN [s1 EXCEPT !.running = IF halted THEN @ ELSE s.running,
                  !.threw = TRUE]

\* the body of handleIntersection's forEach that starts whatever the state
handleEntry_Ungated(s, entry) ==
    LET sectionId == entry[1]
        animation == s.animations[sectionId]
    IN IF animation = NoAnimation THEN s
       ELSE IF entry[2]
       THEN Call([s EXCEPT !.visibleSections = @ \cup {sectionId},
                           !.currentSection = sectionId,
                           !.intersected = @ \cup {sectionId}], "start", animation)
       ELSE Call([s EXCEPT !.visibleSections = @ \ {sectionId}], "pause", animation)

\* the body of handleIntersection's forEach that records the section before
\* it looks for its animation
handleEntry_Unchecked(s, entry) ==
    LET sectionId == entry[1]
        animation == s.animations[sectionId]
        s0 == IF entry[2]
              THEN [s EXCEPT !.visibleSections = @ \cup {sectionId},
                             !.currentSection = sectionId]
              ELSE [s EXCEPT !.visibleSections = @ \ {sectionId}]
    IN IF animation = NoAnimation THEN s0
       ELSE IF entry[2]
       THEN LET s1 == [s0 EXCEPT !.intersected = @ \cup {sectionId}]
            IN IF ~s1.reducedMotionEnabled /\ s1.isActive
               THEN Call(s1, "start", animation) ELSE s1
       ELSE Call(s0, "pause", animation)

\* the body of handleIntersection's forEach; an entry is <<target.id, isIntersecting>>
handleEntry(s, entry) ==
    LET sectionId == entry[1]
        animation == s.animations[sectionId]
    IN IF animation = NoAnimation THEN s
       ELSE IF entry[2]
       THEN LET s1 == [s EXCEPT !.visibleSections = @ \cup {sectionId},
                                !.currentSection = sectionId,
                                !.intersected = @ \cup {sectionId}]
            IN IF ~s1.reducedMotionEnabled /\ s1.isActive
               THEN Call(s1, "start", animation) ELSE s1
       ELSE Call([s EXCEPT !.visibleSections = @ \ {sectionId}], "pause", animation)

RECURSIVE handleIntersection(_, _)
handleIntersection(s, entries) ==
    IF entries = <<>> THEN s
    ELSE handleIntersection(handleEntry(s, Head(entries)), Tail(entries))

\* the animations of the visible sections that have an entry
VisibleAnimations(s) ==
    { s.animations[id] : id \in s.visibleSections \cap Registered(s) }

\* setActive that resumes the visible sections whatever the preference
setActive_IgnoringMotion(s, active) ==
    LET s1 == [s EXCEPT !.isActive = active]
    IN IF ~active
       THEN CallAll(s1, "pause", RegisteredAnimations(s1))
       ELSE CallAll(s1, "start", VisibleAnimations(s1))

setActive(s, active) ==
    LET s1 == [s EXCEPT !.isActive = active]
    IN IF ~active
       THEN CallAll(s1, "pause", RegisteredAnimations(s1))
       ELSE IF ~s1.reducedMotionEnabled
       THEN CallAll(s1, "start", VisibleAnimations(s1))
       ELSE s1

destroy(s) ==
    LET s1 == IF s.intersectionObserver # 0
              THEN [s EXCEPT !.observers = @ \ {s.intersectionObserver},
                             !.intersectionObserver = 0]
              ELSE s
        s2 == IF s1.performanceMonitorId # 0
              THEN [s1 EXCEPT !.monitors = @ \ {s1.performanceMonitorId},
                              !.performanceMonitorId = 0]
              ELSE s1
        s3 == CallAll(s2, "cleanup", RegisteredAnimations(s2))
    IN [s3 EXCEPT !.animations = [id \in SectionIds |-> NoAnimation],
                  !.visibleSections = {}]

setupIntersectionObserver(s, supported) ==
    IF ~supported
    THEN Warn(s)
    ELSE LET o == CHOOSE x \in 1..(Cardinality(s.observers) + 1) : x \notin s.observers
         IN [s EXCEPT !.intersectionObserver = o, !.observers = @ \cup {o}]

\* requestAnimationFrame(monitor)
requestMonitorFrame(s) ==
    LET h == CHOOSE x \in 1..(Cardinality(s.monitors) + 1) : x \notin s.monitors
    IN [s EXCEPT !.performanceMonitorId = h, !.monitors = @ \cup {h}]

startPerformanceMonitoring(s) == requestMonitorFrame(s)

setupReducedMotionListener(s) == [s EXCEPT !.listeners = @ + 1]

init(s, supported) ==
    setupReducedMotionListener(
        startPerformanceMonitoring(setupIntersectionObserver(s, supported)))

\* handlePerformanceDegradation that only logs
handlePerformanceDegradation_WarnOnly(s) == Warn(s)

handlePerformanceDegradation(s) ==
    LET s1 == Warn(s)
    IN IF s1.frameRate < severeFrameRate
       THEN Warn(setActive(s1, FALSE))
       ELSE s1

\* one run of the monitor callback; memory is the heap size read, or NoMemory
monitor(s, memory) ==
    LET deltaTime == s.sinceSample
        s1 == [s EXCEPT !.frameRate = IF deltaTime = 0 THEN Infinity
                                      ELSE 1000 \div deltaTime,
                        !.sinceSample = 0]
        s2 == IF memory # NoMemory THEN [s1 EXCEPT !.memoryUsage = memory] ELSE s1
        s3 == IF s2.frameRate < frameRateThreshold
              THEN handlePerformanceDegradation(s2) ELSE s2
        s4 == IF s3.memoryUsage > memoryThreshold
              THEN handlePerformanceDegradation(s3) ELSE s3
    IN requestMonitorFrame(s4)

\* the callbacks due in one frame run back to back, each removed from the
\* schedule before it runs
RECURSIVE runMonitors(_, _, _)
runMonitors(s, due, memory) ==
    IF due = {} THEN s
    ELSE LET h == CHOOSE x \in due : \A y \in due : x <= y
         IN runMonitors(monitor([s EXCEPT !.monitors = @ \ {h}], memory),
                        due \ {h}, memory)

\* handleChange of setupReducedMotionListener that only records the preference
handleChange_NoPause(s, matches) ==
    LET s1 == [s EXCEPT !.reducedMotionEnabled = matches]
    IN IF matches
       THEN s1
       ELSE IF s1.isActive
       THEN CallAll(s1, "start", VisibleAnimations(s1))
       ELSE s1

\* handleChange of setupReducedMotionListener; matches is e.matches
handleChange(s, matches) ==
    LET s1 == [s EXCEPT !.reducedMotionEnabled = matches]
    IN IF matches
       THEN CallAll(s1, "pause", RegisteredAnimations(s1))
       ELSE IF s1.isActive
       THEN CallAll(s1, "start", VisibleAnimations(s1))
       ELSE s1

RECURSIVE dispatchChange(_, _, _)
dispatchChange(s, n, matches) ==
    IF n = 0 THEN s ELSE dispatchChange(handleChange(s, matches), n - 1, matches)

----------------------------------------------------------------------------
(* AnimationErrorHandler *)

\* hasElement: document.getElementById(sectionId) is not null
applyStaticFallback(s, sectionId, hasElement) ==
    IF ~hasElement THEN s
    ELSE [s EXCEPT !.fallback = @ \cup {sectionId}]

\* handleAnimationError that switches animations off before it unregisters
handleAnimationError_DisablingAll(s, sectionId, hasElement, cleanupThrows, halted) ==
    LET s1 == [Warn(s) EXCEPT !.errorSection = sectionId]
        s2 == applyStaticFallback(s1, sectionId, hasElement)
        s3 == setActive(s2, FALSE)
    IN IF cleanupThrows /\ s3.animations[sectionId] # NoAnimation
       THEN unregisterSectionThrows(s3, sectionId, halted)
       ELSE unregisterSection(s3, sectionId)

\* cleanupThrows: the cleanup() of the section's animation throws
handleAnimationError(s, sectionId, hasElement, cleanupThrows, halted) ==
    LET s1 == [Warn(s) EXCEPT !.errorSection = sectionId]
        s2 == applyStaticFallback(s1, sectionId, hasElement)
    IN IF cleanupThrows /\ s2.animations[sectionId] # NoAnimation
       THEN unregisterSectionThrows(s2, sectionId, halted)
       ELSE unregisterSection(s2, sectionId)

----------------------------------------------------------------------------
(* Actions of the AnimationController *)

AcAssign(s, op) ==
    /\ animations' = s.animations
    /\ isActive' = s.isActive
    /\ reducedMotionEnabled' = s.reducedMotionEnabled
    /\ visibleSections' = s.visibleSections
    /\ currentSection' = s.currentSection
    /\ frameRate' = s.frameRate
    /\ memoryUsage' = s.memoryUsage
    /\ animationCount' = s.animationCount
    /\ sinceSample' = s.sinceSample
    /\ intersectionObserver' = s.intersectionObserver
    /\ performanceMonitorId' = s.performanceMonitorId
    /\ observers' = s.observers
    /\ monitors' = s.monitors
    /\ listeners' = s.listeners
    /\ running' = s.running
    /\ calls' = s.calls
    /\ warnings' = s.warnings
    /\ acOp' = op
    /\ intersected' = s.intersected
    /\ fallback' = s.fallback
    /\ acThrew' = s.threw
    /\ errorSection' = s.errorSection

\* a call of the controller that involves nothing else of the page
AcCommit(s, op) == AcAssign(s, op) /\ UNCHANGED <<psVars, pageVars>>

\* the constructor; detectReducedMotion reads the media query
InitAC ==
    /\ animations = [id \in SectionIds |-> NoAnimation]
    /\ isActive = TRUE
    /\ mediaMatches \in BOOLEAN
    /\ reducedMotionEnabled = mediaMatches
    /\ visibleSections = {}
    /\ currentSection = ""
    /\ frameRate = InitialFrameRate
    /\ memoryUsage = 0
    /\ animationCount = 0
    /\ sinceSample = 0
    /\ intersectionObserver = 0
    /\ performanceMonitorId = 0
    /\ observers = {}
    /\ monitors = {}
    /\ listeners = 0
    /\ hasIntersectionObserver \in BOOLEAN
    /\ running = {}
    /\ created = 0
    /\ acOp = "new"
    /\ intersected = {}
    /\ calls = [c \in Methods \X AnimationIds |-> 0]
    /\ warnings = 0
    /\ fallback = {}
    /\ acThrew = FALSE
    /\ errorSection = ""

ControllerInit ==
    /\ listeners < MaxInits
    /\ AcCommit(init(AC, hasIntersectionObserver), "init")
    /\ UNCHANGED <<mediaMatches, hasIntersectionObserver, created>>

\* a section mounts and registers an animation it has just constructed
RegisterSection ==
    \E id \in SectionIds :
        /\ created < MaxInstances
        /\ created' = created + 1
        /\ AcCommit(registerSection(AC, id, created + 1), "registerSection")
        /\ UNCHANGED <<mediaMatches, hasIntersectionObserver>>

UnregisterSection ==
    \E id \in SectionIds :
        /\ AcCommit(unregisterSection(AC, id), "unregisterSection")
        /\ UNCHANGED <<mediaMatches, hasIntersectionObserver, created>>

Entries ==
    UNION { [1..n -> SectionIds \X BOOLEAN] : n \in 1..MaxEntries }

\* a connected observer delivers entries
HandleIntersection ==
    \E entries \in Entries :
        /\ observers # {}
        /\ AcCommit(handleIntersection(AC, entries), "handleIntersection")
        /\ UNCHANGED <<mediaMatches, hasIntersectionObserver, created>>

\* a connected observer reports one section crossing a threshold
HandleIntersectionEntry ==
    \E entry \in SectionIds \X BOOLEAN :
        /\ observers # {}
        /\ AcCommit(handleIntersection(AC, <<entry>>), "handleIntersection")
        /\ UNCHANGED <<mediaMatches, hasIntersectionObserver, created>>

\* the catch block of AnimatedBackground's effect, or any other caller, hands
\* an error of a section to the handler; the section's animation may be one
\* whose cleanup() throws
HandleAnimationError ==
    \E id \in SectionIds, hasElement \in BOOLEAN, cleanupThrows \in BOOLEAN,
       halted \in BOOLEAN :
        /\ cleanupThrows \/ ~halted
        /\ AcCommit(handleAnimationError(AC, id, hasElement, cleanupThrows, halted),
                    "handleAnimationError")
        /\ UNCHANGED <<mediaMatches, hasIntersectionObserver, created>>

SetActive ==
    \E active \in BOOLEAN :
        /\ AcCommit(setActive(AC, active), "setActive")
        /\ UNCHANGED <<mediaMatches, hasIntersectionObserver, created>>

Destroy ==
    /\ AcCommit(destroy(AC), "destroy")
    /\ UNCHANGED <<mediaMatches, hasIntersectionObserver, created>>

\* the user flips the reduced-motion preference; every listener runs
ReducedMotionChange ==
    /\ mediaMatches' = ~mediaMatches
    /\ AcCommit(dispatchChange(AC, listeners, ~mediaMatches),
                "reducedMotionChange")
    /\ UNCHANGED <<hasIntersectionObserver, created>>

\* the browser renders a frame e ms after the previous one and runs the
\* monitor callbacks scheduled for it; while no monitor samples the metrics
\* the time since the last sample is followed up to MaxGap
BrowserFrame ==
    \E e \in FrameGaps, memory \in MemorySamples :
        /\ monitors # {} \/ sinceSample + e <= MaxGap
        /\ AcCommit(runMonitors([AC EXCEPT !.sinceSample = @ + e], monitors, memory),
                    IF monitors = {} THEN "idle" ELSE "frame")
        /\ UNCHANGED <<mediaMatches, hasIntersectionObserver, created>>

\* The operations that decide which animations run.  The monitor callback
\* acts on the registry, the visibility set and the animations only through
\* setActive(false), which SetActive offers in every state, so the frames of
\* the performance monitor are left to SpecMonitor.
NextAC ==
    \/ ControllerInit
    \/ RegisterSection
    \/ UnregisterSection
    \/ HandleIntersection
    \/ SetActive
    \/ Destroy
    \/ ReducedMotionChange

\* The performance monitor: init, the frames, and the operations that start
\* and stop animations or the monitor itself.
NextMonitor ==
    \/ ControllerInit
    \/ RegisterSection
    \/ HandleIntersectionEntry
    \/ Destroy
    \/ BrowserFrame

\* A browser without IntersectionObserver: no observer ever delivers entries,
\* the other operations and the monitor frames go on.
NextDegraded ==
    \/ ControllerInit
    \/ RegisterSection
    \/ UnregisterSection
    \/ SetActive
    \/ ReducedMotionChange
    \/ BrowserFrame

\* Errors handed to the AnimationErrorHandler, for sections registered or
\* not, running or not.
NextErrorHandler ==
    \/ ControllerInit
    \/ RegisterSection
    \/ HandleIntersectionEntry
    \/ HandleAnimationError

\* The hero section's ParticleSystem with frames that may throw, beside the
\* error handler.
NextFrameError ==
    \/ SpawnParticle
    \/ Frame
    \/ FrameError
    \/ Start
    \/ Stop
    \/ Cleanup
    \/ HandleAnimationError

----------------------------------------------------------------------------
(* AnimatedBackground: the effect, its cleanup and the spawn loops *)

\* the section types whose animation spawns particles periodically
LoopTypes == {"hero", "challenge", "impact"}

\* spawnParticle calls of one createBleedingStreams / createSuccessStreams
StreamCount(type) == IF type = "challenge" THEN 5 ELSE 3

\* the component as a value
BG == [sectionType |-> sectionType, mounted |-> mounted, unmounted |-> unmounted,
       particleSystemRef |-> particleSystemRef, systemCleaned |-> systemCleaned,
       animationFrameRef |-> animationFrameRef, bgFrames |-> bgFrames,
       bgTimers |-> bgTimers, rescheduled |-> FALSE, spawnCalls |-> 0]

\* new ParticleSystem(...); particleSystemRef.current.start()
newParticleSystem(b) ==
    [b EXCEPT !.particleSystemRef = @ + 1, !.systemCleaned = FALSE]

\* a handle requestAnimationFrame has not handed to the component before;
\* animationFrameRef is the only place the component keeps one
bgRequestAnimationFrame(b) ==
    CHOOSE h \in 1..(Cardinality(b.bgFrames) + 2) :
        h \notin b.bgFrames /\ h # b.animationFrameRef

\* spawnParticles of initializeHeroAnimation
spawnParticles(b) ==
    LET b1 == IF b.particleSystemRef # 0
              THEN [b EXCEPT !.bgTimers.spawn = @ + HeroPositions,
                             !.rescheduled = TRUE]
              ELSE b
        h == bgRequestAnimationFrame(b1)
    IN [b1 EXCEPT !.animationFrameRef = h, !.bgFrames = @ \cup {h},
                  !.rescheduled = TRUE]

\* the timeout callback of spawnParticles' forEach
delayedSpawn(b) ==
    IF b.particleSystemRef # 0 THEN [b EXCEPT !.spawnCalls = @ + 1] ELSE b

\* the frame callback of spawnParticles: setTimeout(spawnParticles, 2000)
heroFrame(b) == [b EXCEPT !.bgTimers.hero = @ + 1, !.rescheduled = TRUE]

\* createBleedingStreams / createSuccessStreams
createStreams(b, type) ==
    LET b1 == IF b.particleSystemRef # 0
              THEN [b EXCEPT !.spawnCalls = @ + StreamCount(type)]
              ELSE b
    IN [b1 EXCEPT !.bgTimers[type] = @ + 1, !.rescheduled = TRUE]

\* initializeSectionAnimation; reduced: the media query matches now
initializeSectionAnimation(b, type, reduced) ==
    IF reduced THEN b
    ELSE IF type = "hero" THEN spawnParticles(newParticleSystem(b))
    ELSE createStreams(newParticleSystem(b), type)

\* the function the effect returns
effectCleanup(b) ==
    LET b1 == IF b.particleSystemRef # 0 THEN [b EXCEPT !.systemCleaned = TRUE] ELSE b
    IN IF b1.animationFrameRef # 0
       THEN [b1 EXCEPT !.bgFrames = @ \ {b1.animationFrameRef}]
       ELSE b1

BgAssign(b, op) ==
    /\ sectionType' = b.sectionType
    /\ mounted' = b.mounted
    /\ unmounted' = b.unmounted
    /\ particleSystemRef' = b.particleSystemRef
    /\ systemCleaned' = b.systemCleaned
    /\ animationFrameRef' = b.animationFrameRef
    /\ bgFrames' = b.bgFrames
    /\ bgTimers' = b.bgTimers
    /\ rescheduled' = b.rescheduled
    /\ spawnCalls' = b.spawnCalls
    /\ bgOp' = op

\* a callback of the component that involves nothing else of the page
BgCommit(b, op) ==
    BgAssign(b, op) /\ UNCHANGED <<psVars, acVars, snapVars, flowVars, netVars, bleedVars>>

InitBackground ==
    /\ sectionType = "hero"
    /\ mounted = FALSE
    /\ unmounted = FALSE
    /\ particleSystemRef = 0
    /\ systemCleaned = FALSE
    /\ animationFrameRef = 0
    /\ bgFrames = {}
    /\ bgTimers = [t \in LoopTypes \cup {"spawn"} |-> 0]
    /\ bgOp = "new"
    /\ rescheduled = FALSE
    /\ spawnCalls = 0

\* the effect runs, on mount or after sectionType changed:
\* animationController.init(), then initializeSectionAnimation()
Mount ==
    \E type \in LoopTypes :
        /\ ~mounted
        /\ listeners < MaxInits
        /\ AcAssign(init(AC, hasIntersectionObserver), "init")
        /\ BgAssign(initializeSectionAnimation(
                        [BG EXCEPT !.sectionType = type, !.mounted = TRUE],
                        type, mediaMatches), "mount")
        /\ UNCHANGED <<psVars, snapVars, flowVars, netVars, bleedVars>>
        /\ UNCHANGED <<mediaMatches, hasIntersectionObserver, created>>

\* the effect's cleanup runs, on unmount or before the effect runs again
Unmount ==
    /\ mounted
    /\ BgCommit([effectCleanup(BG) EXCEPT !.mounted = FALSE, !.unmounted = TRUE],
                "unmount")

\* the frame callback spawnParticles scheduled runs
HeroFrame ==
    \E h \in bgFrames :
        BgCommit(heroFrame([BG EXCEPT !.bgFrames = @ \ {h}]), "frame")

\* a timeout of a spawn loop expires.  The delayed spawns of one round of the
\* hero loop (0, 200, 400 ms) expire before its next round (2000 ms).
LoopTimer ==
    \E type \in LoopTypes :
        /\ bgTimers[type] > 0
        /\ type = "hero" => bgTimers.spawn + HeroPositions <= MaxSpawnTimers
        /\ LET b == [BG EXCEPT !.bgTimers[type] = @ - 1]
           IN BgCommit(IF type = "hero" THEN spawnParticles(b)
                       ELSE createStreams(b, type), "loop")

\* the timeout of a delayed spawn of the hero loop expires
SpawnTimer ==
    /\ bgTimers.spawn > 0
    /\ BgCommit(delayedSpawn([BG EXCEPT !.bgTimers.spawn = @ - 1]), "spawn")

NextBackground ==
    \/ Mount
    \/ Unmount
    \/ HeroFrame
    \/ LoopTimer
    \/ SpawnTimer

----------------------------------------------------------------------------
(* FlowAnimation *)

InitFlow ==
    /\ flowIsRunning = FALSE
    /\ flowPaths = 0
    /\ flowParticles = {}
    /\ flowFrames = {}
    /\ flowCreated = 0
    /\ flowStopped = FALSE
    /\ flowOp = "new"
    /\ flowMutated = 0

FlowRest == UNCHANGED <<psVars, acVars, snapVars, bgVars, netVars, bleedVars>>

\* createPath(pathData)
CreatePath ==
    /\ flowPaths < MaxPaths
    /\ flowPaths' = flowPaths + 1
    /\ flowOp' = "createPath"
    /\ flowMutated' = 0
    /\ UNCHANGED <<flowIsRunning, flowParticles, flowFrames, flowCreated, flowStopped>>
    /\ FlowRest

\* animateAlongPath(path, particleClass): a new particle, and the first
\* requestAnimationFrame(animate)
AnimateAlongPath ==
    /\ flowPaths > 0
    /\ flowCreated < MaxFlowParticles
    /\ flowCreated' = flowCreated + 1
    /\ flowParticles' = flowParticles \cup {flowCreated + 1}
    /\ flowFrames' = flowFrames \cup {flowCreated + 1}
    /\ flowOp' = "animateAlongPath"
    /\ flowMutated' = 0
    /\ UNCHANGED <<flowIsRunning, flowPaths, flowStopped>>
    /\ FlowRest

\* start()
FlowStart ==
    /\ flowIsRunning' = TRUE
    /\ flowStopped' = FALSE
    /\ flowOp' = "start"
    /\ flowMutated' = 0
    /\ UNCHANGED <<flowPaths, flowParticles, flowFrames, flowCreated>>
    /\ FlowRest

\* stop()
FlowStop ==
    /\ flowIsRunning' = FALSE
    /\ flowStopped' = TRUE
    /\ flowOp' = "stop"
    /\ flowMutated' = 0
    /\ UNCHANGED <<flowPaths, flowParticles, flowFrames, flowCreated>>
    /\ FlowRest

\* cleanup(): stop(), then the particles and the paths leave the document
FlowCleanup ==
    /\ flowIsRunning' = FALSE
    /\ flowStopped' = TRUE
    /\ flowParticles' = {}
    /\ flowPaths' = 0
    /\ flowOp' = "cleanup"
    /\ flowMutated' = 0
    /\ UNCHANGED <<flowFrames, flowCreated>>
    /\ FlowRest

\* the animate callback of particle p runs: it writes the particle's
\* transform and opacity, then schedules itself if isRunning
FlowFrame ==
    \E p \in flowFrames :
        /\ flowMutated' = p
        /\ flowFrames' = IF flowIsRunning THEN flowFrames ELSE flowFrames \ {p}
        /\ flowOp' = "frame"
        /\ UNCHANGED <<flowIsRunning, flowPaths, flowParticles, flowCreated, flowStopped>>
        /\ FlowRest

NextFlow ==
    \/ CreatePath
    \/ AnimateAlongPath
    \/ FlowStart
    \/ FlowStop
    \/ FlowCleanup
    \/ FlowFrame

----------------------------------------------------------------------------
(* ConnectionNetwork *)

InitNetwork ==
    /\ cnNodes = 0
    /\ cnConnections = 0
    /\ pulseAnimations = {}
    /\ cnFrames = {}
    /\ cnHandles = 0
    /\ cnCleanedAt = 0
    /\ cnOp = "new"
    /\ cnRan = 0

NetworkRest == UNCHANGED <<psVars, acVars, snapVars, bgVars, flowVars, bleedVars>>

\* addNode(x, y)
AddNode ==
    /\ cnNodes < MaxNodes
    /\ cnNodes' = cnNodes + 1
    /\ cnOp' = "addNode"
    /\ cnRan' = 0
    /\ UNCHANGED <<cnConnections, pulseAnimations, cnFrames, cnHandles, cnCleanedAt>>
    /\ NetworkRest

\* connectNodes(nodeIndex1, nodeIndex2)
ConnectNodes ==
    \E nodeIndex1 \in 0..MaxNodes, nodeIndex2 \in 0..MaxNodes :
        /\ cnConnections < MaxConnections
        /\ cnConnections' = IF nodeIndex1 >= cnNodes \/ nodeIndex2 >= cnNodes
                            THEN cnConnections
                            ELSE cnConnections + 1
        /\ cnOp' = "connectNodes"
        /\ cnRan' = 0
        /\ UNCHANGED <<cnNodes, pulseAnimations, cnFrames, cnHandles, cnCleanedAt>>
        /\ NetworkRest

\* pulseConnection(connectionIndex): the handle of the first
\* requestAnimationFrame(animate) is dropped
PulseConnection ==
    \E connectionIndex \in 0..MaxConnections :
        /\ cnHandles < MaxHandles
        /\ IF connectionIndex >= cnConnections
           THEN UNCHANGED <<cnFrames, cnHandles>>
           ELSE /\ cnHandles' = cnHandles + 1
                /\ cnFrames' = cnFrames \cup {cnHandles + 1}
        /\ cnOp' = "pulseConnection"
        /\ cnRan' = 0
        /\ UNCHANGED <<cnNodes, cnConnections, pulseAnimations, cnCleanedAt>>
        /\ NetworkRest

\* the animate callback with handle h runs: it writes the stroke, schedules
\* itself and pushes the new handle
PulseFrame ==
    \E h \in cnFrames :
        /\ cnHandles < MaxHandles
        /\ cnHandles' = cnHandles + 1
        /\ cnFrames' = (cnFrames \ {h}) \cup {cnHandles + 1}
        /\ pulseAnimations' = pulseAnimations \cup {cnHandles + 1}
        /\ cnOp' = "frame"
        /\ cnRan' = h
        /\ UNCHANGED <<cnNodes, cnConnections, cnCleanedAt>>
        /\ NetworkRest

\* cleanup(): cancelAnimationFrame for each handle of pulseAnimations
NetworkCleanup ==
    /\ cnFrames' = cnFrames \ pulseAnimations
    /\ pulseAnimations' = {}
    /\ cnNodes' = 0
    /\ cnConnections' = 0
    /\ cnCleanedAt' = cnHandles + 1
    /\ cnOp' = "cleanup"
    /\ cnRan' = 0
    /\ UNCHANGED cnHandles
    /\ NetworkRest

NextNetwork ==
    \/ AddNode
    \/ ConnectNodes
    \/ PulseConnection
    \/ PulseFrame
    \/ NetworkCleanup

----------------------------------------------------------------------------
(* ChallengeBleedAnimation *)

InitBleed ==
    /\ bleedContainer = FALSE
    /\ particlesRef = 0
    /\ spawnTimerRef = 0
    /\ bleedFrame = FALSE
    /\ bleedTimers = 0
    /\ bleedOp = "new"

BleedRest == UNCHANGED <<psVars, acVars, snapVars, bgVars, flowVars, netVars>>

\* the component mounts and its effect runs initializeAnimation()
BleedMount ==
    /\ ~bleedContainer
    /\ bleedContainer' = TRUE
    /\ IF mediaMatches
       THEN UNCHANGED <<particlesRef, spawnTimerRef, bleedFrame>>
       ELSE /\ particlesRef' = 0
            /\ spawnTimerRef' = 0
            /\ bleedFrame' = TRUE
    /\ bleedOp' = "mount"
    /\ UNCHANGED bleedTimers
    /\ BleedRest

\* the component unmounts: the ref is detached and the effect's cleanup runs
BleedUnmount ==
    /\ bleedContainer
    /\ bleedContainer' = FALSE
    /\ bleedFrame' = FALSE
    /\ particlesRef' = 0
    /\ bleedOp' = "unmount"
    /\ UNCHANGED <<spawnTimerRef, bleedTimers>>
    /\ BleedRest

\* particles in the list after updateParticles removed `expired` of them
bleedUpdateParticles(length, expired) ==
    IF expired <= length THEN length - expired ELSE 0

\* timeouts spawnParticles(deltaTime) sets, when the timer reaches SPAWN_RATE:
\* one per iteration that finds the list below PARTICLE_COUNT
scheduledSpawns(length, spawnCount) ==
    IF length < PARTICLE_COUNT THEN spawnCount ELSE 0

\* the animate callback runs.  The timeouts of a round (0 to 300 ms) have
\* expired when the spawn timer reaches SPAWN_RATE again.
BleedAnimate ==
    \E deltaTime \in {FrameDelta, LargeJump},
       expired \in 0..MaxExpired,
       spawnCount \in MinSpawnCount..MaxSpawnCount :
        /\ bleedFrame
        /\ IF ~bleedContainer
           THEN /\ bleedFrame' = FALSE
                /\ UNCHANGED <<particlesRef, spawnTimerRef, bleedTimers>>
           ELSE /\ bleedFrame' = TRUE
                /\ IF deltaTime > 0 /\ deltaTime < LargeJump
                   THEN LET length == bleedUpdateParticles(particlesRef, expired)
                        IN /\ particlesRef' = length
                           /\ IF spawnTimerRef + deltaTime >= SPAWN_RATE
                              THEN /\ bleedTimers = 0
                                   /\ spawnTimerRef' = 0
                                   /\ bleedTimers' = scheduledSpawns(length, spawnCount)
                              ELSE /\ spawnTimerRef' = spawnTimerRef + deltaTime
                                   /\ UNCHANGED bleedTimers
                   ELSE UNCHANGED <<particlesRef, spawnTimerRef, bleedTimers>>
        /\ bleedOp' = "animate"
        /\ UNCHANGED bleedContainer
        /\ BleedRest

\* a timeout of spawnParticles expires: it pushes a particle, if the
\* container is there
BleedSpawnTimer ==
    /\ bleedTimers > 0
    /\ bleedTimers' = bleedTimers - 1
    /\ particlesRef' = IF bleedContainer THEN particlesRef + 1 ELSE particlesRef
    /\ bleedOp' = "spawn"
    /\ UNCHANGED <<bleedContainer, spawnTimerRef, bleedFrame>>
    /\ BleedRest

NextBleed ==
    \/ BleedMount
    \/ BleedUnmount
    \/ BleedAnimate
    \/ BleedSpawnTimer

----------------------------------------------------------------------------
(* getState and its callers *)

\* the one Set and the one metrics object the controller's state refers to
\* from construction on: no operation assigns state.visibleSections or
\* state.performanceMetrics, they are changed in place
VisibleSectionsRef == "state.visibleSections"

PerformanceMetricsRef == "state.performanceMetrics"

\* { ...this.state }: the own properties of state copied into a new object,
\* booleans and strings by value, objects by reference
getState(s) ==
    [taken |-> TRUE,
     isActive |-> s.isActive,
     currentSection |-> s.currentSection,
     reducedMotionEnabled |-> s.reducedMotionEnabled,
     performanceMetrics |-> PerformanceMetricsRef,
     visibleSections |-> VisibleSectionsRef]

\* the content of the object a reference leads to
Deref(s, ref) ==
    IF ref = VisibleSectionsRef
    THEN [visibleSections |-> s.visibleSections]
    ELSE [frameRate |-> s.frameRate, memoryUsage |-> s.memoryUsage,
          animationCount |-> s.animationCount]

\* what a reader of the returned object sees
View(s, snap) ==
    [isActive |-> snap.isActive,
     reducedMotionEnabled |-> snap.reducedMotionEnabled,
     visibleSections |-> Deref(s, snap.visibleSections),
     performanceMetrics |-> Deref(s, snap.performanceMetrics)]

InitSnapshot ==
    /\ snapshot = [getState(AC) EXCEPT !.taken = FALSE]
    /\ snapshotAtCall = View(AC, snapshot)

InitPage ==
    InitSnapshot /\ InitBackground /\ InitFlow /\ InitNetwork /\ InitBleed

\* a caller asks for the state
GetState ==
    /\ snapshot' = getState(AC)
    /\ snapshotAtCall' = View(AC, getState(AC))
    /\ UNCHANGED <<psVars, acVars, bgVars, flowVars, netVars, bleedVars>>

\* the caller adds a section to, or deletes one from, the visibleSections of
\* the object it got
ModifySnapshot ==
    \E id \in SectionIds, add \in BOOLEAN :
        /\ snapshot.taken
        /\ snapshot.visibleSections = VisibleSectionsRef
        /\ AcCommit([AC EXCEPT !.visibleSections =
                        IF add THEN @ \cup {id} ELSE @ \ {id}], "modifySnapshot")
        /\ UNCHANGED <<mediaMatches, hasIntersectionObserver, created>>

\* The controller's operations and a caller holding a getState() result.
NextSnapshot ==
    \/ ControllerInit
    \/ RegisterSection
    \/ HandleIntersectionEntry
    \/ SetActive
    \/ GetState
    \/ ModifySnapshot

\* a page with one ParticleSystem and the controller; while the particle
\* system is exercised the controller stays as constructed
InitParticleSystem ==
    InitPS /\ InitAC /\ InitPage /\ ~mediaMatches /\ hasIntersectionObserver

\* the controller in every environment, beside an untouched ParticleSystem
InitController == InitPS /\ InitAC /\ InitPage

SpecParticleSystem == InitParticleSystem /\ [][NextPS]_vars

SpecController == InitController /\ [][NextAC]_vars

SpecMonitor == InitController /\ [][NextMonitor]_vars

SpecFlow == InitController /\ [][NextFlow]_vars

SpecNetwork == InitController /\ [][NextNetwork]_vars

SpecBleed == InitController /\ [][NextBleed]_vars

SpecBackground == InitController /\ [][NextBackground]_vars

SpecSnapshot == InitController /\ [][NextSnapshot]_vars

SpecErrorHandler == InitController /\ [][NextErrorHandler]_vars

SpecFrameError == InitParticleSystem /\ [][NextFrameError]_vars

\* the controller in a browser without IntersectionObserver
InitDegraded == InitController /\ ~hasIntersectionObserver

SpecDegraded == InitDegraded /\ [][NextDegraded]_vars

----------------------------------------------------------------------------
(* Properties of the ParticleSystem *)

NoDuplicates(s) == \A i, j \in 1..Len(s) : s[i] = s[j] => i = j

\* records the latest call returned to the pool
Returned == { p \in wrote : ~rec[p].active }

C2_MutualExclusion ==
    /\ Range(particles) \cap Range(particlePool) = {}
    /\ NoDuplicates(particles)
    /\ NoDuplicates(particlePool)

\* a record that lived before was taken again while another record is pooled
C2_Witness ==
    /\ lastOp = "spawn" /\ recycled
    /\ Len(particles) >= 1 /\ Len(particlePool) >= 1

\* C3: once cleanup() has returned, a frame callback of the system writes no
\* element's transform or opacity.
C3_NoMutationAfterCleanup ==
    (cleaned /\ lastOp = "frame") => wrote = {}

\* a frame update ran after cleanup() (the system was started again)
C3_Witness == cleaned /\ lastOp = "frame" /\ lastDelta >= 0 /\ isRunning

\* C4: start() after start(), and stop() after stop(), changes no field, no
\* element and no scheduled callback.
C4_StartStopIdempotent ==
    (twice /\ lastOp \in {"start", "stop"}) => ~changed

\* start() was called twice in a row with particles active
C4_Witness == twice /\ lastOp = "start" /\ Len(particles) >= 1 /\ pending # {}

\* C5: a record taken again by spawnParticle carries the values of the new
\* call alone, in its fields and on its element.
C5_Reinitialised ==
    (lastOp = "spawn" /\ recycled) =>
        /\ taken # NoParticle
        /\ rec[taken] = [x |-> lastArgs[1] * 1000, y |-> lastArgs[2] * 1000,
                         vx |-> lastArgs[3], vy |-> lastArgs[4],
                         opacity |-> DrawOpacity(lastArgs[5]),
                         scale |-> DrawScale(lastArgs[6]),
                         active |-> TRUE]
        /\ element[taken].transform =
               <<lastArgs[1] * 1000, lastArgs[2] * 1000, DrawScale(lastArgs[6])>>
        /\ element[taken].opacity = DrawOpacity(lastArgs[5])

\* a record whose previous life ended outside the box is spawned again inside
C5_Witness ==
    /\ lastOp = "spawn" /\ recycled /\ taken # NoParticle
    /\ lastArgs[3] = 125

\* C6: a frame update moves and fades every active record exactly once; the
\* records then expired are in the pool, inactive, in the order the loop met
\* them (last index first); the others stay active in their order, with their
\* elements showing the new values; pooled records are untouched.
C6_FrameStep ==
    (lastOp' = "frame" /\ lastDelta' >= 0) =>
        LET dt == lastDelta'
            next(p) == Advance(rec[p], dt)
            dead == { p \in Range(particles) : Expired(next(p)) }
            Reverse(s) == [i \in 1..Len(s) |-> s[Len(s) + 1 - i]]
        IN /\ \A p \in Range(particles) \ dead :
                  /\ rec'[p] = next(p)
                  /\ element'[p].transform = <<next(p).x, next(p).y, next(p).scale>>
                  /\ element'[p].opacity = next(p).opacity
           /\ \A p \in dead :
                  /\ rec'[p] = [next(p) EXCEPT !.active = FALSE]
                  /\ element'[p].opacity = 0
           /\ \A p \in DOMAIN rec \ Range(particles) :
                  rec'[p] = rec[p] /\ element'[p] = element[p]
           /\ particles' = SelectSeq(particles, LAMBDA p : p \notin dead)
           /\ particlePool' =
                  particlePool \o Reverse(SelectSeq(particles, LAMBDA p : p \in dead))

C6_FrameReturnsExpired == [][C6_FrameStep]_vars

\* a moving frame returned a record and kept another one active
C6_Witness ==
    /\ lastOp = "frame" /\ lastDelta > 0
    /\ Returned # {}
    /\ Len(particles) >= 1

\* C7: after cleanup() the loop is stopped, nothing is scheduled, every element
\* is detached, both collections are empty and nothing was raised; cleanup()
\* called again changes nothing.
C7_CleanupReleases ==
    lastOp = "cleanup" =>
        /\ ~isRunning /\ pending = {} /\ animationFrame = 0
        /\ \A p \in DOMAIN element : ~element[p].attached
        /\ particles = <<>> /\ particlePool = <<>>
        /\ ~threw
        /\ twice => (~changed /\ wrote = {})

\* cleanup() was called twice in a row on a system whose records had all lived
C7_Witness == lastOp = "cleanup" /\ twice /\ everActive = 1..Config.count

----------------------------------------------------------------------------
(* Properties of the AnimationController *)

\* the animations the latest call started
Started == { a \in AnimationIds : calls[<<"start", a>>] > 0 }

\* C8: no animation runs unless it is the one registered under some section.
C8_OnlyRegisteredRun == running \subseteq RegisteredAnimations(AC)

\* C9: a registered section whose animation runs is visible, while animations
\* are enabled and reduced motion is off.
C9_RunningIsEligible ==
    \A id \in Registered(AC) :
        animations[id] \in running =>
            /\ id \in visibleSections
            /\ isActive
            /\ ~reducedMotionEnabled

\* the reduced-motion listener paused a visible registered section while
\* animations were enabled
C9_Witness ==
    /\ acOp = "reducedMotionChange" /\ reducedMotionEnabled /\ isActive
    /\ \E id \in visibleSections \cap Registered(AC) :
           calls[<<"pause", animations[id]>>] >= 1

\* C10: handleIntersection starts the registered sections it meets
\* intersecting exactly when animations are enabled and reduced motion is off,
\* and records them as visible either way; setActive(true) with reduced motion
\* off, and a reduced-motion change to false with animations enabled, start
\* exactly the animations of the visible registered sections, once per call of
\* the handler, and start nothing when the other signal still forbids it.
C10_StartWhenEligible ==
    /\ acOp = "handleIntersection" =>
           /\ intersected \subseteq Registered(AC)
           /\ Started = IF isActive /\ ~reducedMotionEnabled
                        THEN { animations[id] : id \in intersected }
                        ELSE {}
           /\ \A id \in intersected :
                  calls[<<"pause", animations[id]>>] = 0 => id \in visibleSections
    /\ (acOp = "setActive" /\ isActive) =>
           /\ Started = IF ~reducedMotionEnabled THEN VisibleAnimations(AC) ELSE {}
           /\ \A a \in Started : calls[<<"start", a>>] = 1
    /\ (acOp = "reducedMotionChange" /\ listeners > 0 /\ ~mediaMatches) =>
           /\ ~reducedMotionEnabled
           /\ Started = IF isActive THEN VisibleAnimations(AC) ELSE {}
           /\ \A a \in Started : calls[<<"start", a>>] = listeners

\* setActive(true) started a section recorded as visible and not running
C10_Witness ==
    /\ acOp = "setActive" /\ isActive /\ ~reducedMotionEnabled
    /\ Started # {}

NoCalls == [c \in Methods \X AnimationIds |-> 0]

C11_UnregisterStep ==
    acOp' = "unregisterSection" =>
        \E id \in SectionIds :
            IF animations[id] # NoAnimation
            THEN /\ calls' = [NoCalls EXCEPT ![<<"cleanup", animations[id]>>] = 1]
                 /\ animations' = [animations EXCEPT ![id] = NoAnimation]
                 /\ visibleSections' = visibleSections \ {id}
            ELSE /\ calls' = NoCalls
                 /\ warnings' = 0
                 /\ UNCHANGED <<animations, visibleSections, isActive,
                                reducedMotionEnabled, currentSection, running,
                                animationCount, frameRate, memoryUsage,
                                intersectionObserver, performanceMonitorId,
                                observers, monitors, listeners>>

\* C11: unregisterSection on a registered id calls that animation's cleanup()
\* once and nothing else, and removes the id from the registry and from
\* visibleSections; on an id without an entry it calls nothing and changes
\* nothing.
C11_UnregisterCleansOnce == [][C11_UnregisterStep]_vars

\* an animation was cleaned up by unregisterSection and is registered no more
C11_Witness ==
    /\ acOp = "unregisterSection"
    /\ \E a \in AnimationIds :
           /\ calls[<<"cleanup", a>>] = 1
           /\ a \notin RegisteredAnimations(AC)
           /\ a \notin running

C12_ReducedMotionStep ==
    /\ (acOp' = "reducedMotionChange" /\ listeners > 0 /\ mediaMatches') =>
           /\ reducedMotionEnabled'
           /\ running' \cap RegisteredAnimations(AC) = {}
           /\ \A a \in RegisteredAnimations(AC) : calls'[<<"pause", a>>] >= 1
           /\ \A a \in AnimationIds : calls'[<<"start", a>>] = 0
    /\ (reducedMotionEnabled /\ acOp' # "reducedMotionChange") =>
           /\ reducedMotionEnabled'
           /\ \A a \in AnimationIds : calls'[<<"start", a>>] = 0

\* C12: the change handler called with matches = true pauses every registered
\* animation before it returns, and from then on no call of the controller
\* invokes start() on any animation until the preference changes again.
C12_ReducedMotionHolds == [][C12_ReducedMotionStep]_vars

\* a visibility event met a registered section while reduced motion was on
\* and animations were enabled
C12_Witness ==
    /\ acOp = "handleIntersection" /\ intersected # {}
    /\ reducedMotionEnabled /\ mediaMatches /\ listeners > 0 /\ isActive

----------------------------------------------------------------------------
(* Properties of the performance monitor *)

C13_SevereStep ==
    (acOp' = "frame" /\ frameRate' < severeFrameRate) =>
        /\ ~isActive'
        /\ animations' = animations
        /\ visibleSections' = visibleSections
        /\ running' \cap RegisteredAnimations(AC) = {}
        /\ \A a \in running \cap RegisteredAnimations(AC) :
               calls'[<<"pause", a>>] >= 1

\* C13: a monitor frame that samples a frame rate below 15 fps (10 fps among
\* them) leaves isActive false and every registered animation that was running
\* paused, with the registry and the visibility set as they were.
C13_SevereFrameRateDisables == [][C13_SevereStep]_vars

\* a frame sampled at 10 fps paused a visible registered section
C13_Witness ==
    /\ acOp = "frame" /\ frameRate = 10 /\ ~isActive /\ ~reducedMotionEnabled
    /\ \E id \in visibleSections \cap Registered(AC) :
           calls[<<"pause", animations[id]>>] >= 1

C14_LowRunStep ==
    ( /\ acOp = "frame" /\ frameRate < frameRateThreshold /\ warnings > 0
      /\ acOp' = "frame" /\ frameRate' < frameRateThreshold
      /\ memoryUsage' <= memoryThreshold ) =>
        warnings' = 0

\* C14: a sampled frame below the frame-rate threshold that follows a sampled
\* frame below the threshold, for which a warning was emitted, emits no
\* further warning.
C14_OneWarningPerRun == [][C14_LowRunStep]_vars

C15_SingleFrameStep ==
    ( /\ acOp = "frame" /\ frameRate >= frameRateThreshold /\ isActive
      /\ acOp' = "frame" ) =>
        isActive'

\* C15: one sampled frame that follows a frame sampled at a normal rate does
\* not set isActive to false.
C15_SustainedBeforeDisable == [][C15_SingleFrameStep]_vars

\* C16: after a monitor frame that leaves the sampled memory usage above the
\* memory threshold, no registered animation is running.
C16_HighMemoryPauses ==
    (acOp = "frame" /\ memoryUsage > memoryThreshold) =>
        running \cap RegisteredAnimations(AC) = {}

\* C17: with reduced motion off, a visibility event with an intersecting
\* entry for a registered section leaves that section running, also after the
\* monitor has disabled animations.
C17_VisibilityRecovers ==
    (acOp = "handleIntersection" /\ ~reducedMotionEnabled) =>
        \A id \in intersected : animations[id] \in running

----------------------------------------------------------------------------
(* Properties of the degraded mode *)

\* C18: in a browser without IntersectionObserver, whenever the monitor
\* started by init() has sampled a rendered frame while animations are enabled
\* and reduced motion is off, every registered section is running.
C18_RunsUngated ==
    ( /\ ~hasIntersectionObserver /\ acOp = "frame"
      /\ isActive /\ ~reducedMotionEnabled ) =>
        RegisteredAnimations(AC) \subseteq running

\* without IntersectionObserver no animation ever runs
C18_NeverStarts == ~hasIntersectionObserver => running = {}

----------------------------------------------------------------------------
(* Properties of the AnimationErrorHandler *)

\* C19: handleAnimationError returns without throwing and leaves the section
\* it was called for without an entry in the registry.
C19_HandlerNeverThrows ==
    acOp = "handleAnimationError" =>
        /\ ~acThrew
        /\ animations[errorSection] = NoAnimation

\* with animations whose cleanup() returns, the handler returns, removes the
\* entry and styles the element if there is one
C19_HandlerWithoutFault ==
    (acOp = "handleAnimationError" /\ ~acThrew) =>
        /\ animations[errorSection] = NoAnimation
        /\ errorSection \notin visibleSections
        /\ warnings = 1

\* C20: after a frame callback of the section's ParticleSystem has thrown,
\* the system is not running and has no callback scheduled, the section's
\* element carries the fallback class, the handler was the one to act, and
\* the section has no entry in the registry.
C20_FrameErrorHandled ==
    lastOp = "frameError" =>
        /\ ~isRunning
        /\ pending = {}
        /\ acOp = "handleAnimationError" /\ errorSection = ParticleSection
        /\ ParticleSection \in fallback
        /\ animations[ParticleSection] = NoAnimation

\* a frame that throws leaves the system marked running with no callback
\* scheduled, and reaches neither the handler nor the controller
C20_FrameErrorStalls ==
    (lastOp = "frameError" /\ acOp = "new") =>
        /\ isRunning /\ threw
        /\ animationFrame \notin pending
        /\ fallback = {}

C21_ErrorStep ==
    acOp' = "handleAnimationError" =>
        /\ isActive' = isActive
        /\ reducedMotionEnabled' = reducedMotionEnabled
        /\ \A B \in SectionIds \ {errorSection'} :
               /\ animations'[B] = animations[B]
               /\ (B \in visibleSections') = (B \in visibleSections)
               /\ (animations[B] \in running') = (animations[B] \in running)
               /\ \A m \in Methods : animations[B] # NoAnimation =>
                                         calls'[<<m, animations[B]>>] = 0

\* C21: handleAnimationError for section A leaves the entry, the running or
\* paused state and the visibility of every other section as they were, calls
\* no method of their animations, and leaves isActive and
\* reducedMotionEnabled as they were.
C21_ErrorIsLocal == [][C21_ErrorStep]_vars

\* the handler removed one section's animation while another section was
\* visible and running
C21_Witness ==
    /\ acOp = "handleAnimationError"
    /\ animations[errorSection] = NoAnimation
    /\ \E a \in AnimationIds : calls[<<"cleanup", a>>] = 1
    /\ \E B \in visibleSections \ {errorSection} : animations[B] \in running

----------------------------------------------------------------------------
(* Further properties of the ParticleSystem *)

C28_OnePendingFrame ==
    /\ isRunning => pending = {animationFrame}
    /\ ~isRunning => pending = {}
    /\ Cardinality(pending) <= 1

\* a frame ran, re-scheduled itself, and start() was called on the running
\* system
C28_Witness ==
    /\ lastOp = "start" /\ isRunning /\ lastTime > 0
    /\ Cardinality(pending) = 1

----------------------------------------------------------------------------
(* Further properties of the AnimationController *)

C29_Step ==
    /\ visibleSections' \subseteq { id \in SectionIds : animations'[id] # NoAnimation }
    /\ acOp' = "destroy" =>
           (visibleSections' = {} /\ \A id \in SectionIds : animations'[id] = NoAnimation)
    /\ (acOp' = "handleIntersection" /\ calls' = NoCalls /\ intersected' = {}) =>
           UNCHANGED <<animations, isActive, reducedMotionEnabled, visibleSections,
                       currentSection, frameRate, memoryUsage, animationCount,
                       sinceSample, intersectionObserver, performanceMonitorId,
                       observers, monitors, listeners, running>>

\* C29: after every operation each section in visibleSections has an entry in
\* the registry; after destroy() both are empty; an observer callback whose
\* entries are all for sections without an entry changes no field of the
\* controller.
C29_VisibleAreRegistered == [][C29_Step]_vars

\* an observer callback whose entries were all for sections without an
\* animation arrived while another section was registered and visible
C29_Witness ==
    /\ acOp = "handleIntersection" /\ calls = NoCalls /\ intersected = {}
    /\ visibleSections # {}
    /\ Registered(AC) # SectionIds

----------------------------------------------------------------------------
(* Properties of getState *)

\* C22: the object getState() returned shows the isActive,
\* reducedMotionEnabled, visibleSections and performanceMetrics it showed when
\* it was returned.
C22_SnapshotKeepsValues ==
    snapshot.taken => View(AC, snapshot) = snapshotAtCall

\* the booleans of the returned object keep their values
C22_BooleansKept ==
    snapshot.taken =>
        /\ snapshot.isActive = snapshotAtCall.isActive
        /\ snapshot.reducedMotionEnabled = snapshotAtCall.reducedMotionEnabled

----------------------------------------------------------------------------
(* Properties of destroy *)

\* C24: when destroy() returns, no monitor callback is scheduled and no
\* IntersectionObserver made by the controller is connected.
C24_DestroyStopsAll ==
    acOp = "destroy" => (monitors = {} /\ observers = {})

\* after a single init() it is so
C24_DestroyAfterOneInit ==
    (acOp = "destroy" /\ listeners <= 1) => (monitors = {} /\ observers = {})

----------------------------------------------------------------------------
(* Properties of AnimatedBackground *)

\* C23: a callback of a spawn loop that runs while the component's effect
\* cleanup has run and no effect is active schedules nothing and calls
\* spawnParticle on no system.
C23_LoopStopsAfterCleanup ==
    (unmounted /\ ~mounted /\ bgOp \in {"frame", "loop", "spawn"}) =>
        (~rescheduled /\ spawnCalls = 0)

\* the effect cleanup cancels the frame callback animationFrameRef names and
\* cleans up the particle system, and nothing else
C23_CleanupCancelsFrameOnly ==
    bgOp = "unmount" =>
        /\ animationFrameRef \notin bgFrames
        /\ particleSystemRef # 0 => systemCleaned

----------------------------------------------------------------------------
(* Properties of FlowAnimation, ConnectionNetwork and ChallengeBleedAnimation *)

\* C25: an animate callback that runs after stop() or cleanup(), and before
\* any later start(), writes no particle's transform or opacity.
C25_NoMutationAfterStop ==
    (flowOp = "frame" /\ flowStopped) => flowMutated = 0

\* an animate callback that finds the animation not running does not
\* schedule itself again
C25_StoppedChainEnds ==
    (flowOp = "frame" /\ ~flowIsRunning) => flowMutated \notin flowFrames

\* C26: no animate callback that pulseConnection started before the latest
\* cleanup() runs after it.
C26_NoFrameAfterCleanup ==
    cnOp = "frame" => cnRan >= cnCleanedAt

\* cleanup() cancels every callback whose handle pulseAnimations holds
C26_CleanupCancelsHeld ==
    cnOp = "cleanup" => pulseAnimations = {}

\* C30: the component never holds more than PARTICLE_COUNT particles.
C30_AtMostParticleCount ==
    particlesRef <= PARTICLE_COUNT

\* the particles never exceed PARTICLE_COUNT by a whole round or more
C30_OvershootBelowRound ==
    particlesRef < PARTICLE_COUNT + MaxSpawnCount

====
